---- MODULE Spec2Model ----
(***************************************************************************)
(* Usage gating of the Historical Truth Finder page (src/app.py): the      *)
(* per-session identity, the premium_users and searches tables, and the    *)
(* page run main(), split where it blocks on the archive.org request.      *)
(*                                                                         *)
(* Time is counted in ticks of 24h / TicksPerDay, in UTC.  A timestamp is  *)
(* kept as the text the code stores: the triple <<date, separator, time>>, *)
(* compared field by field as SQLite compares TEXT.                        *)
(***************************************************************************)
EXTENDS Integers, Sequences, FiniteSets, TLC

\* ---------------------------------------------------------------- bounds
\* Browser sessions open at once.
NumSessions == 2
\* Distinct values of the 16-digit identity.
IdSpace == 2
\* Clock resolution.
TicksPerDay == 2
\* Times the clock is seen to move in one behaviour.
MaxAdvances == 2
\* Rows the searches table may hold.
MaxRows == 6

\* ------------------------------------------------------ program constants
CAP == 5
FreeRows == 10
PremiumRows == 20
DurationDays == 30
WindowDays == 1
MaxChars == 200
SpaceSep == 32
TSep == 84

Sessions == 1..NumSessions
Ids == 0..(IdSpace - 1)
NoUser == -1
\* The host's offset from UTC, in ticks.
TzOffsets == {-1, 0, 1}
\* The clock moves by one tick, or by the length of a grant.
Steps == {1, DurationDays * TicksPerDay}
\* duration_days: the default, and a short grant.
Durations == {1, DurationDays}
\* The text typed: nothing, punctuation only, and a word among other characters.
Queries == {<< >>, <<"!">>, <<" ", "a", "!">>}
\* len(docs) of a usable answer.
DocCounts == {1}
StartTick == TicksPerDay

VARIABLES now, advances, tz, user_id, pc, locals, searches, premium_users

vars == <<now, advances, tz, user_id, pc, locals, searches, premium_users>>

\* ------------------------------------------------------------- timestamps
Day(t) == t \div TicksPerDay
Tod(t) == t % TicksPerDay

\* SQLite datetime('now') / CURRENT_TIMESTAMP: "YYYY-MM-DD HH:MM:SS", UTC.
SqlDatetime(t) == <<Day(t), SpaceSep, Tod(t)>>

\* datetime.isoformat(): "YYYY-MM-DDTHH:MM:SS[.ffffff]".
IsoFormat(t) == <<Day(t), TSep, Tod(t)>>

\* datetime.now(): the naive local time.
LocalNow(t, off) == t + off

\* SQLite's comparison of two TEXT values: the first differing field decides.
RECURSIVE TextGT(_, _)
TextGT(a, b) ==
    IF a = << >> THEN FALSE
    ELSE IF b = << >> THEN TRUE
    ELSE IF Head(a) # Head(b) THEN Head(a) > Head(b)
    ELSE TextGT(Tail(a), Tail(b))

\* The instant a stored timestamp text denotes, in ticks of its own clock.
TicksOf(text) == text[1] * TicksPerDay + text[3]

\* ------------------------------------------------------------------ input
IsWordChar(c) == c \in {"a", " ", "-"}

RECURSIVE Strip(_)
Strip(text) ==
    IF text = << >> THEN << >>
    ELSE IF Head(text) = " " THEN Strip(Tail(text))
    ELSE IF text[Len(text)] = " " THEN Strip(SubSeq(text, 1, Len(text) - 1))
    ELSE text

sanitize_input(text) ==
    IF text = << >> \/ Len(text) > MaxChars THEN << >>
    ELSE SelectSeq(Strip(text), IsWordChar)

\* --------------------------------------------------------------- identity
Sha256Hex16(t) == t % IdSpace

get_user_hash(s) ==
    IF user_id[s] = NoUser THEN Sha256Hex16(LocalNow(now, tz)) ELSE user_id[s]

\* ------------------------------------------------------------ entitlement
check_premium_status(tbl, user_hash, t) ==
    \E r \in tbl : r.user_hash = user_hash /\ TextGT(r.expires_at, SqlDatetime(t))

\* A plain INSERT on a table without the UNIQUE constraint: the old row stays.
add_premium_user_insert(tbl, user_hash, duration_days, t, off) ==
    tbl \cup {[user_hash |-> user_hash,
              activated_at |-> SqlDatetime(t),
              expires_at |-> IsoFormat(LocalNow(t, off) + duration_days * TicksPerDay)]}

add_premium_user(tbl, user_hash, duration_days, t, off) ==
    {r \in tbl : r.user_hash # user_hash}
        \cup {[user_hash |-> user_hash,
               activated_at |-> SqlDatetime(t),
               expires_at |-> IsoFormat(LocalNow(t, off) + duration_days * TicksPerDay)]}

\* ------------------------------------------------------------- rate limit
\* timestamp >= datetime('now', '-24 hours'): the window closed at its old end.
check_rate_limit_closed(tbl, user_hash, t) ==
    Cardinality({i \in DOMAIN tbl :
        /\ tbl[i].user_hash = user_hash
        /\ ~TextGT(SqlDatetime(t - WindowDays * TicksPerDay), tbl[i].timestamp)})

\* The WHERE clause without its timestamp condition: every record ever made.
check_rate_limit_ever(tbl, user_hash, t) ==
    Cardinality({i \in DOMAIN tbl : tbl[i].user_hash = user_hash})

check_rate_limit(tbl, user_hash, t) ==
    Cardinality({i \in DOMAIN tbl :
        /\ tbl[i].user_hash = user_hash
        /\ TextGT(tbl[i].timestamp, SqlDatetime(t - WindowDays * TicksPerDay))})

\* ---------------------------------------------------------------- search
NoData == [kind |-> "none", docs |-> 0]
EmptyJson == [kind |-> "empty", docs |-> 0]
Responses == {NoData, EmptyJson} \cup {[kind |-> "json", docs |-> n] : n \in DocCounts}

\* `if data is not None:` -- an empty object passes.
TruthyNotNone(data) == data.kind # "none"

\* `if data:` -- None and {} are both falsy.
Truthy(data) == data.kind = "json"

NoLocals == [premium |-> FALSE, query |-> << >>, rows |-> 0]

\* The insert preceded by a cleanup of the records that left the window.
InsertSearchPruned(tbl, query, user_hash, t, results_count) ==
    LET Fresh(r) == TextGT(r.timestamp, SqlDatetime(t - WindowDays * TicksPerDay))
    IN  Append(SelectSeq(tbl, Fresh),
               [query |-> query, user_hash |-> user_hash,
                timestamp |-> SqlDatetime(t), results_count |-> results_count])

InsertSearch(tbl, query, user_hash, t, results_count) ==
    Append(tbl, [query |-> query, user_hash |-> user_hash,
                 timestamp |-> SqlDatetime(t), results_count |-> results_count])

\* ------------------------------------------------------- main()'s decisions
\* The flag without the activation signal.
PremiumStoredOnly(tbl, user_hash, t, activated) ==
    check_premium_status(tbl, user_hash, t)

\* premium = check_premium_status() or st.query_params.get('premium') == 'activated'
Premium(tbl, user_hash, t, activated) ==
    check_premium_status(tbl, user_hash, t) \/ activated

\* search_count > 5: one search too many.
LimitedOffByOne(premium, search_count) == ~premium /\ search_count > CAP

\* The tiers swapped: the cap applied to premium users only.
LimitedPremiumOnly(premium, search_count) == premium /\ search_count >= CAP

\* if not premium and search_count >= 5
Limited(premium, search_count) == ~premium /\ search_count >= CAP

\* 'rows': 20 if premium else 10
RowsParam(premium) == IF premium THEN PremiumRows ELSE FreeRows

\* ------------------------------------------------------------------ state
Init ==
    /\ now = StartTick
    /\ advances = 0
    /\ tz \in TzOffsets
    /\ user_id = [s \in Sessions |-> NoUser]
    /\ pc = [s \in Sessions |-> "idle"]
    /\ locals = [s \in Sessions |-> NoLocals]
    /\ searches = << >>
    /\ premium_users = {}

\* main() from its first line to the archive.org request (or to its end when
\* no search is issued).  up: the store can be reached; activated: the
\* ?premium=activated query parameter.
RunBegin(s, up, activated, search_button, query) ==
    /\ pc[s] # "searching"
    /\ UNCHANGED <<now, advances, tz, searches>>
    /\ IF ~up
       THEN /\ pc' = [pc EXCEPT ![s] = "exception"]
            /\ UNCHANGED <<user_id, locals, premium_users>>
       ELSE LET user_hash == get_user_hash(s)
                premium == Premium(premium_users, user_hash, now, activated)
                search_count == check_rate_limit(searches, user_hash, now)
                limited == Limited(premium, search_count)
                button == IF limited THEN FALSE ELSE search_button
                sanitized_query == sanitize_input(query)
            IN  /\ user_id' = [user_id EXCEPT ![s] = user_hash]
                /\ premium_users' =
                       IF activated
                       THEN add_premium_user(premium_users, user_hash, DurationDays, now, tz)
                       ELSE premium_users
                /\ IF button /\ query # << >>
                   THEN IF sanitized_query = << >>
                        THEN /\ pc' = [pc EXCEPT ![s] = "idle"]
                             /\ locals' = [locals EXCEPT ![s] = NoLocals]
                        ELSE /\ pc' = [pc EXCEPT ![s] = "searching"]
                             /\ locals' = [locals EXCEPT ![s] =
                                    [premium |-> premium,
                                     query |-> sanitized_query,
                                     rows |-> RowsParam(premium)]]
                   ELSE /\ pc' = [pc EXCEPT ![s] = IF limited THEN "limited" ELSE "idle"]
                        /\ locals' = [locals EXCEPT ![s] = NoLocals]

\* main() from the answer of safe_api_request to its end.
RunFinish(s, up, data, maxRows) ==
    /\ pc[s] = "searching"
    /\ UNCHANGED <<now, advances, tz, user_id, premium_users>>
    /\ locals' = [locals EXCEPT ![s] = NoLocals]
    /\ IF ~Truthy(data)
       THEN /\ pc' = [pc EXCEPT ![s] = "unavailable"]
            /\ UNCHANGED searches
       ELSE IF ~up
       THEN /\ pc' = [pc EXCEPT ![s] = "exception"]
            /\ UNCHANGED searches
       ELSE /\ Len(searches) < maxRows
            /\ searches' = InsertSearch(searches, locals[s].query, user_id[s], now, data.docs)
            /\ pc' = [pc EXCEPT ![s] = "idle"]

\* The wall clock moves on.
Advance(d) ==
    /\ advances < MaxAdvances
    /\ now' = now + d
    /\ advances' = advances + 1
    /\ UNCHANGED <<tz, user_id, pc, locals, searches, premium_users>>

\* The browser session ends (tab closed, page reloaded): st.session_state, and
\* with it user_id, is discarded; the next run starts a fresh session.
NewSession(s) ==
    /\ pc[s] # "searching"
    /\ user_id[s] # NoUser
    /\ user_id' = [user_id EXCEPT ![s] = NoUser]
    /\ pc' = [pc EXCEPT ![s] = "idle"]
    /\ UNCHANGED <<now, advances, tz, locals, searches, premium_users>>

Begin(S, ups, acts) ==
    \E s \in S, up \in ups, activated \in acts, search_button \in BOOLEAN, query \in Queries :
        RunBegin(s, up, activated, search_button, query)

Finish(S, ups, maxRows) ==
    \E s \in S, up \in ups, data \in Responses : RunFinish(s, up, data, maxRows)

Reload(S) == \E s \in S : NewSession(s)

Clock(steps) == \E d \in steps : Advance(d)

\* One browser session at a time, each run handled to completion.
Next == Begin({1}, {TRUE}, BOOLEAN) \/ Finish({1}, {TRUE}, MaxRows) \/ Reload({1}) \/ Clock(Steps)

Spec == Init /\ [][Next]_vars

\* Several sessions of the free tier racing on the shared store.
RaceRows == CAP + NumSessions + 1

NextConcurrent ==
    Begin(Sessions, {TRUE}, {FALSE}) \/ Finish(Sessions, {TRUE}, RaceRows) \/ Clock({1})

InitUtc == Init /\ tz = 0

SpecConcurrent == InitUtc /\ [][NextConcurrent]_vars

\* One session whose store may be unreachable at any access.
NextFault ==
    Begin({1}, BOOLEAN, {FALSE}) \/ Finish({1}, BOOLEAN, MaxRows) \/ Clock({1})

SpecFault == InitUtc /\ [][NextFault]_vars

\* ================================================================= claims
WindowTicks == WindowDays * TicksPerDay
GrantTicks == DurationDays * TicksPerDay

RowsOf(id) == {i \in DOMAIN searches : searches[i].user_hash = id}

\* The usage records of id made in the 24 hours that end at w: later than
\* w - 24h and not later than w (a day of TicksPerDay ticks).
InWindow(id, w) ==
    {i \in RowsOf(id) : /\ TicksOf(searches[i].timestamp) > w - WindowTicks
                        /\ TicksOf(searches[i].timestamp) <= w}

\* The same with the instant w - 24h itself counted.
InClosedWindow(id, w) ==
    {i \in RowsOf(id) : /\ TicksOf(searches[i].timestamp) >= w - WindowTicks
                        /\ TicksOf(searches[i].timestamp) <= w}

\* The ends of the windows that can hold the most records: a window that ends
\* between two records holds no more than the one that ends at the earlier.
WindowEnds == {now} \cup {TicksOf(searches[i].timestamp) : i \in DOMAIN searches}

ValidQueries == {q \in Queries : sanitize_input(q) # << >>}

NormalPages == {"idle", "limited", "searching", "unavailable"}

\* C1: an identity is entitled at time t exactly when premium_users holds a
\* record for it whose expiry, the grant's instant plus 30 days, is later than
\* t; never granted means never entitled.
C1_EntitledUntilExpiry ==
    \A id \in Ids :
        check_premium_status(premium_users, id, now)
            <=> \E r \in premium_users :
                    /\ r.user_hash = id
                    /\ TicksOf(r.activated_at) + GrantTicks > now

\* C2: premium_users holds at most one record per identity; a grant leaves
\* exactly the record of that grant (expiry = the local time of the grant plus
\* its duration) whatever record was there before, also when the old expiry
\* was later, and touches no other identity's record.
C2_GrantRow(id, d) ==
    [user_hash |-> id,
     activated_at |-> SqlDatetime(now),
     expires_at |-> IsoFormat(now + tz + d * TicksPerDay)]

C2_Replaces(tbl, id, d) ==
    /\ {r \in tbl : r.user_hash = id} = {C2_GrantRow(id, d)}
    /\ {r \in tbl : r.user_hash # id} = {r \in premium_users : r.user_hash # id}

C2_LatestGrantWins ==
    /\ [](\A id \in Ids :
            /\ Cardinality({r \in premium_users : r.user_hash = id}) <= 1
            /\ \A d \in Durations :
                 C2_Replaces(add_premium_user(premium_users, id, d, now, tz), id, d))
    /\ [][\A s \in Sessions, b \in BOOLEAN, q \in Queries :
            RunBegin(s, TRUE, TRUE, b, q)
                => /\ Cardinality({r \in premium_users' : r.user_hash = user_id'[s]}) = 1
                   /\ C2_GrantRow(user_id'[s], DurationDays) \in premium_users']_vars

\* A record granted after its identity had already searched more than CAP
\* times in one window (so as a premium user, under an earlier grant), with a
\* shorter grant at hand that would expire before it.
C2_Witness ==
    \E r \in premium_users :
        /\ \E w \in WindowEnds :
              /\ w < TicksOf(r.activated_at)
              /\ Cardinality(InWindow(r.user_hash, w)) > CAP
        /\ \E d \in Durations :
              TextGT(r.expires_at, IsoFormat(now + tz + d * TicksPerDay))

\* C3: for an identity that is not entitled (and a run without the activation
\* signal), a requested search is issued exactly when fewer than CAP of the
\* identity's usage records lie in the trailing 24 hours; otherwise the run
\* ends with the daily-limit warning.
C3_AllowedIffUnderCap ==
    [][\A s \in Sessions, q \in ValidQueries :
         (/\ pc[s] # "searching"
          /\ ~check_premium_status(premium_users, get_user_hash(s), now)
          /\ RunBegin(s, TRUE, FALSE, TRUE, q))
            => /\ pc'[s] = "searching"
                    <=> Cardinality(InWindow(get_user_hash(s), now)) < CAP
               /\ pc'[s] \in {"searching", "limited"}]_vars

\* A free search in flight for an identity with CAP or more records, of which
\* fewer than CAP are still in the window: allowed again, no grant in between.
C3_Witness ==
    \E s \in Sessions :
        /\ pc[s] = "searching"
        /\ ~locals[s].premium
        /\ \A r \in premium_users : r.user_hash # user_id[s]
        /\ Cardinality(RowsOf(user_id[s])) >= CAP
        /\ Cardinality(InWindow(user_id[s], now)) < CAP

\* C4: when a run with a valid query asks for a search, the search is issued
\* iff the identity is then entitled in the store or its usage is under CAP;
\* an issued search carries tier PREMIUM iff the identity is entitled in the
\* store, and rows = 20 for PREMIUM, 10 for FREE.
C4_Entitled(s) == check_premium_status(premium_users', user_id'[s], now')

C4_TierAndRows ==
    [][\A s \in Sessions, a \in BOOLEAN, q \in ValidQueries :
         (pc[s] # "searching" /\ RunBegin(s, TRUE, a, TRUE, q))
            => /\ pc'[s] = "searching"
                    <=> \/ C4_Entitled(s)
                        \/ Cardinality(InWindow(user_id'[s], now)) < CAP
               /\ pc'[s] = "searching"
                    => /\ locals'[s].premium <=> C4_Entitled(s)
                       /\ locals'[s].rows = IF C4_Entitled(s) THEN 20 ELSE 10]_vars

\* A premium search in flight, 20 rows asked, for an identity already at CAP.
C4_Witness ==
    \E s \in Sessions :
        /\ pc[s] = "searching"
        /\ locals[s].premium
        /\ locals[s].rows = PremiumRows
        /\ Cardinality(InWindow(user_id[s], now)) >= CAP

\* C5: with NumSessions sessions racing, no identity ever has more than
\* CAP + NumSessions usage records within a trailing 24-hour window.
C5_OvershootBounded ==
    \A id \in Ids, w \in WindowEnds :
        Cardinality(InWindow(id, w)) <= CAP + NumSessions

\* The cap exceeded: more than CAP records of one identity in the window.
C5_Witness ==
    \E id \in Ids : Cardinality(InWindow(id, now)) > CAP

\* C6: a run whose store cannot be reached ends with a normal page (the free
\* tier's), never with an unhandled exception.
C6_NoUnhandledError ==
    \A s \in Sessions : pc[s] \in NormalPages

\* C7 as stated: the count is the number of the identity's records in the
\* closed interval [now - 24h, now].
C7_CountsClosedWindow ==
    \A id \in Ids :
        check_rate_limit(searches, id, now) = Cardinality(InClosedWindow(id, now))

\* C7 amended: the count is the number of the identity's records later than
\* now - 24h and not later than now; a record made exactly 24 hours ago is
\* not counted, and no other identity's record is.
C7_CountsHalfOpenWindow ==
    \A id \in Ids :
        check_rate_limit(searches, id, now) = Cardinality(InWindow(id, now))

\* A record made exactly 24 hours ago, and a record of another identity
\* inside the window.
C7_Witness ==
    \E i, j \in DOMAIN searches :
        /\ TicksOf(searches[i].timestamp) = now - WindowTicks
        /\ searches[j].user_hash # searches[i].user_hash
        /\ j \in InWindow(searches[j].user_hash, now)

\* C8: every step keeps the records of searches as they are, in place (it can
\* only append), and while the clock stands the count of no identity falls.
C8_AppendOnly ==
    [][/\ Len(searches') >= Len(searches)
       /\ SubSeq(searches', 1, Len(searches)) = searches
       /\ now' = now
            => \A id \in Ids :
                 check_rate_limit(searches', id, now') >= check_rate_limit(searches, id, now)]_vars

\* A record that left the window is still in the table, after later appends.
C8_Witness ==
    /\ Len(searches) >= 2
    /\ TicksOf(searches[1].timestamp) <= now - WindowTicks
    /\ TicksOf(searches[Len(searches)].timestamp) > now - WindowTicks

\* C9: run after run of one session, an identity that was never granted
\* premium has at most CAP usage records in any trailing 24-hour window.
C9_CapHoldsSerially ==
    \A id \in Ids :
        (\A r \in premium_users : r.user_hash # id)
            => \A w \in WindowEnds : Cardinality(InWindow(id, w)) <= CAP

\* A never-granted identity with more than CAP records in all, CAP of them in
\* the window.
C9_Witness ==
    \E id \in Ids :
        /\ \A r \in premium_users : r.user_hash # id
        /\ Cardinality(RowsOf(id)) > CAP
        /\ Cardinality(InWindow(id, now)) = CAP

\* C10: the end of a run appends one record, for the run's identity and at the
\* current time, when the provider's answer is usable, and nothing otherwise;
\* the part of a run before the request appends nothing; searches changes in no
\* other step, and premium_users only in a run with the activation signal.
C10_Usable(data) == data.kind = "json"

C10_OneRecordPerServedSearch ==
    [][/\ \A s \in Sessions, data \in Responses :
            (pc[s] = "searching" /\ RunFinish(s, TRUE, data, MaxRows))
               => /\ premium_users' = premium_users
                  /\ IF C10_Usable(data)
                     THEN /\ Len(searches') = Len(searches) + 1
                          /\ SubSeq(searches', 1, Len(searches)) = searches
                          /\ searches'[Len(searches')].user_hash = user_id[s]
                          /\ searches'[Len(searches')].timestamp = SqlDatetime(now)
                     ELSE searches' = searches
       /\ \A s \in Sessions, a, b \in BOOLEAN, q \in Queries :
            (pc[s] # "searching" /\ RunBegin(s, TRUE, a, b, q))
               => /\ searches' = searches
                  /\ ~a => premium_users' = premium_users
       /\ searches' # searches
            => \E s \in Sessions : pc[s] = "searching" /\ pc'[s] = "idle"]_vars

\* A search that failed after earlier ones were recorded.
C10_Witness ==
    \E s \in Sessions :
        /\ pc[s] = "unavailable"
        /\ Len(searches) >= 1

====
